---- MODULE Spec2Model ----
(***************************************************************************)
(* Model of src/js/phaseSyncedSettle.js: the phase-synchronised settle-all *)
(* executor.  One PhaseSyncer per job descriptor; a coordinator (the       *)
(* closure of module.exports) owning jobs, queuedJobs, phasePendingJobs;   *)
(* jobs talk to it through the 'stepDone' / 'jobDone' events of            *)
(* ctrlEmitter and it talks back through 'ready' on each job's own         *)
(* jobEmitter.                                                             *)
(*                                                                         *)
(* JavaScript runs every synchronous block to completion, so each action   *)
(* below is one synchronous block: the construction of one PhaseSyncer,    *)
(* the rest of module.exports, one continuation of a job function (with    *)
(* the event handlers its emit() calls run synchronously), one promise     *)
(* reaction.  Jobs may await anything between two boundaries, so the       *)
(* blocks of different jobs interleave arbitrarily.                        *)
(***************************************************************************)
EXTENDS Integers, Sequences, FiniteSets, TLC

\* ---------------------------------------------------------------- bounds
MaxJobs == 3
MaxConcurrency == 3
MaxPhaseCalls == 2

VARIABLES
    jobList,            \* the caller's job descriptors (input order)
    options,            \* the caller's options argument
    concurrency,        \* `concurrency` as destructured from the options
    mainPc,             \* position of the module.exports call itself
    jobMap,             \* keys of jobMap in insertion order
    jobs,               \* Set `jobs`, in insertion order
    queuedJobs,         \* Set `queuedJobs`, in insertion order
    phasePendingJobs,   \* Set `phasePendingJobs`
    pc,                 \* per job id: where the job function / its promise is
    phaseCntr,          \* per job id: PhaseSyncer.phaseCntr
    outcome,            \* per job id: how the job function's promise settled
    aggregate,          \* the promise returned by pSettle
    \* ---- observers (written, never read, by the program)
    started,            \* per job id: the job function has run some of its own work
    readyCount,         \* per job id: number of 'ready' emitted to its jobEmitter
    resumes,            \* per job id: number of times it resumed from phase()
    stepDoneEmitted,    \* per job id: step numbers it emitted with 'stepDone'
    released,           \* ids signalled 'ready' and not since emitting stepDone/jobDone
    phaseLog,           \* one record per execution of startNewPhase
    invocations,        \* per input position: the argument lists its function was called with
    jobDoneCount,       \* per job id: number of 'jobDone' emitted for it
    readyFaults         \* 'ready' signals sent to a job still released, or already done

vars == <<jobList, options, concurrency, mainPc, jobMap, jobs, queuedJobs,
          phasePendingJobs, pc, phaseCntr, outcome, aggregate, started, readyCount,
          resumes, stepDoneEmitted, released, phaseLog, invocations, jobDoneCount,
          readyFaults>>

\* ------------------------------------------------------------- helpers
Min(a, b) == IF a < b THEN a ELSE b

Range(s) == {s[i] : i \in DOMAIN s}

\* Array.prototype.slice(from, to) for 0 <= from, to (0-based, end exclusive).
Slice(s, from, to) == SubSeq(s, Min(from, Len(s)) + 1, Min(to, Len(s)))

\* Set.prototype.delete on an insertion-ordered Set.
SetDelete(s, id) == SelectSeq(s, LAMBDA x : x # id)

\* A job function, as far as the coordinator can tell it apart:
\*   phaseFirst  its first action is `await phaseSyncer.phase()`
\*   workFirst   it awaits work of its own before its first phase() call
\*   noPhase     it never calls phase()
\*   throwsSync  it is no async function and throws before returning a promise
\* How many boundaries it crosses, and whether it ends by returning or by
\* throwing, is the job's own business and is decided as it runs.
JobKinds == {"phaseFirst", "workFirst", "noPhase", "throwsSync"}

\* The argument list the caller supplies for the job at input position i:
\* none for the first job, one argument for the second, two for the third, ...
\* (values apart from every handle id).
CallerArgs(i) == [k \in 1..(i - 1) |-> 100 + k]

\* A descriptor [fun, args]; `kind` stands for fun.
JobDescriptors(i) == [kind : JobKinds, args : {CallerArgs(i)}]

\* The job lists of n descriptors.
JobLists(n) ==
    {[i \in 1..n |-> [kind |-> ks[i], args |-> CallerArgs(i)]] : ks \in [1..n -> JobKinds]}

\* The options the caller may pass: an object with `concurrency`, or one
\* without it (an absent options argument becomes {} by the parameter default).
OptionValues ==
    {[hasConcurrency |-> TRUE, concurrency |-> c] : c \in 1..MaxConcurrency}
        \cup {[hasConcurrency |-> FALSE, concurrency |-> 0]}

\* A default that admits every job at once.
destructureConcurrency_Unbounded(opts) ==
    IF opts.hasConcurrency THEN opts.concurrency ELSE MaxConcurrency

\* {concurrency = 1, ...} = {}: the destructuring default.
destructureConcurrency(opts) ==
    IF opts.hasConcurrency THEN opts.concurrency ELSE 1

\* uuidv1(): a token unique to each PhaseSyncer; nothing relates its order to
\* the input order (here: later jobs get smaller tokens).
uuidv1(i) == (MaxJobs + 1) - i

N == Len(jobList)

Ids == {uuidv1(i) : i \in 1..N}

\* The input position of the job whose PhaseSyncer has this id.
IndexOf(id) == CHOOSE i \in 1..N : uuidv1(i) = id

Descriptor(id) == jobList[IndexOf(id)]

\* ---------------------------------------------------- the coordinator
\* The operators below work on a record `w` holding the part of the state a
\* synchronous block can touch while it runs event handlers.
World ==
    [jobs |-> jobs, queuedJobs |-> queuedJobs, phasePendingJobs |-> phasePendingJobs,
     pc |-> pc, phaseCntr |-> phaseCntr, readyCount |-> readyCount,
     stepDoneEmitted |-> stepDoneEmitted, released |-> released, phaseLog |-> phaseLog,
     jobDoneCount |-> jobDoneCount, readyFaults |-> readyFaults]

\* A 'ready' that finds no listener on jobEmitter, whatever the job does.
emitReady_NoListener(w, id) ==
    [w EXCEPT !.readyCount[id] = @ + 1,
              !.released = @ \cup {id},
              !.readyFaults = @ \cup (IF id \in w.released
                                       THEN {<<id, "stillReleased">>} ELSE {})
                                 \cup (IF w.pc[id] \in {"done", "finished"}
                                       THEN {<<id, "afterJobDone">>} ELSE {})]

\* A 'ready' whose listener runs the job's continuation inside the emit.
emitReady_ResumesInline(w, id) ==
    [w EXCEPT !.pc[id] = IF @ = "waiting" THEN "working" ELSE @,
              !.readyCount[id] = @ + 1,
              !.released = @ \cup {id},
              !.readyFaults = @ \cup (IF id \in w.released
                                       THEN {<<id, "stillReleased">>} ELSE {})
                                 \cup (IF w.pc[id] \in {"done", "finished"}
                                       THEN {<<id, "afterJobDone">>} ELSE {})]

\* jobMap.get(id).jobEmitter.emit('ready'): the pEvent listener, when one is
\* registered (the job is suspended in phase()), resolves the promise the job
\* awaits; with no listener registered the event is dropped.
emitReady(w, id) ==
    [w EXCEPT !.pc[id] = IF @ = "waiting" THEN "readied" ELSE @,
              !.readyCount[id] = @ + 1,
              !.released = @ \cup {id},
              !.readyFaults = @ \cup (IF id \in w.released
                                       THEN {<<id, "stillReleased">>} ELSE {})
                                 \cup (IF w.pc[id] \in {"done", "finished"}
                                       THEN {<<id, "afterJobDone">>} ELSE {})]

RECURSIVE emitReadyAll(_, _)
emitReadyAll(w, ids) ==
    IF ids = <<>> THEN w ELSE emitReadyAll(emitReady(w, Head(ids)), Tail(ids))

\* slice(0, concurrency + 1)
cohortOf_OneMore(jl) == Slice(jl, 0, concurrency + 1)

\* The ids startNewPhase signals: jobList.slice(0, concurrency).
cohortOf(jl) == Slice(jl, 0, concurrency)

\* slice(concurrency - 1)
queueOf_OneEarly(jl) == Slice(jl, concurrency - 1, Len(jl))

\* The ids startNewPhase queues: jobList.slice(concurrency).
queueOf(jl) == Slice(jl, concurrency, Len(jl))

\* startNewPhase that expects a report from the released jobs only.
startNewPhase_PendingCohort(w) ==
    LET jl == w.jobs
        w1 == emitReadyAll(w, cohortOf(jl))
    IN  [w1 EXCEPT
            !.queuedJobs = queueOf(jl),
            !.phasePendingJobs = Range(cohortOf(jl)),
            !.phaseLog = Append(@, [active |-> jl,
                                    queued |-> queueOf(jl),
                                    signals |-> [id \in DOMAIN w.readyCount |->
                                                    w1.readyCount[id] - w.readyCount[id]]])]

\* phaseLog gets one record per execution: the snapshot of `jobs`, the queue
\* it leaves, and how many 'ready' each job was sent by this execution.
startNewPhase(w) ==
    LET jl == w.jobs
        w1 == emitReadyAll(w, cohortOf(jl))
    IN  [w1 EXCEPT
            !.queuedJobs = queueOf(jl),
            !.phasePendingJobs = Range(jl),
            !.phaseLog = Append(@, [active |-> jl,
                                    queued |-> queueOf(jl),
                                    signals |-> [id \in DOMAIN w.readyCount |->
                                                    w1.readyCount[id] - w.readyCount[id]]])]

\* startQueuedJob that stops expecting a report from the job after the one
\* it releases.
startQueuedJob_Unpends(w) ==
    IF Len(w.queuedJobs) > 0
    THEN LET id   == Head(w.queuedJobs)
             rest == SetDelete(w.queuedJobs, id)
         IN  [emitReady(w, id) EXCEPT
                 !.queuedJobs = rest,
                 !.phasePendingJobs = IF rest = <<>> THEN @ ELSE @ \ {Head(rest)}]
    ELSE w

\* startQueuedJob that takes the job queued last.
startQueuedJob_Latest(w) ==
    IF Len(w.queuedJobs) > 0
    THEN LET id == w.queuedJobs[Len(w.queuedJobs)]
         IN  [emitReady(w, id) EXCEPT !.queuedJobs = SetDelete(@, id)]
    ELSE w

\* startQueuedJob that forgets queuedJobs.delete(id).
startQueuedJob_NoDelete(w) ==
    IF Len(w.queuedJobs) > 0
    THEN emitReady(w, Head(w.queuedJobs))
    ELSE w

startQueuedJob(w) ==
    IF Len(w.queuedJobs) > 0
    THEN LET id == Head(w.queuedJobs)
         IN  [emitReady(w, id) EXCEPT !.queuedJobs = SetDelete(@, id)]
    ELSE w

\* stepDone listener that puts the reporting job back at the end of the queue.
stepDoneListener_Requeues(w, id, stepnr) ==
    LET w1 == [w EXCEPT !.phasePendingJobs = @ \ {id}]
    IN  IF w1.phasePendingJobs = {}
        THEN startNewPhase(w1)
        ELSE startQueuedJob([w1 EXCEPT !.queuedJobs = Append(@, id)])

\* stepDone listener that also forgets the reporting job.
stepDoneListener_DropsJob(w, id, stepnr) ==
    LET w1 == [w EXCEPT !.phasePendingJobs = @ \ {id},
                        !.jobs = SetDelete(@, id)]
    IN  IF w1.phasePendingJobs = {} THEN startNewPhase(w1) ELSE startQueuedJob(w1)

\* stepDone listener that tests `size <= 1` instead of `size === 0`.
stepDoneListener_NoBarrier(w, id, stepnr) ==
    LET w1 == [w EXCEPT !.phasePendingJobs = @ \ {id}]
    IN  IF Cardinality(w1.phasePendingJobs) <= 1
        THEN startNewPhase(w1)
        ELSE startQueuedJob(w1)

\* stepDone listener that backfills from the queue after starting a phase too.
stepDoneListener_Eager(w, id, stepnr) ==
    LET w1 == [w EXCEPT !.phasePendingJobs = @ \ {id}]
    IN  IF w1.phasePendingJobs = {}
        THEN startQueuedJob(startNewPhase(w1))
        ELSE startQueuedJob(w1)

\* stepDone listener that never admits a queued job.
stepDoneListener_NoBackfill(w, id, stepnr) ==
    LET w1 == [w EXCEPT !.phasePendingJobs = @ \ {id}]
    IN  IF w1.phasePendingJobs = {} THEN startNewPhase(w1) ELSE w1

\* ctrlEmitter.on('stepDone', ...)
stepDoneListener(w, id, stepnr) ==
    LET w1 == [w EXCEPT !.phasePendingJobs = @ \ {id}]
    IN  IF w1.phasePendingJobs = {} THEN startNewPhase(w1) ELSE startQueuedJob(w1)

\* jobDone listener that runs startNewPhase twice when nobody is pending.
jobDoneListener_StartsTwice(w, id) ==
    LET w1 == [w EXCEPT !.jobs = SetDelete(@, id),
                        !.queuedJobs = SetDelete(@, id),
                        !.phasePendingJobs = @ \ {id}]
    IN  IF w1.phasePendingJobs = {}
        THEN startNewPhase(startNewPhase(w1))
        ELSE startQueuedJob(w1)

\* jobDone listener that leaves the freed slot empty.
jobDoneListener_NoBackfill(w, id) ==
    LET w1 == [w EXCEPT !.jobs = SetDelete(@, id),
                        !.queuedJobs = SetDelete(@, id),
                        !.phasePendingJobs = @ \ {id}]
    IN  IF w1.phasePendingJobs = {} THEN startNewPhase(w1) ELSE w1

\* jobDone listener that starts a phase at every termination.
jobDoneListener_Restarts(w, id) ==
    startNewPhase([w EXCEPT !.jobs = SetDelete(@, id),
                            !.queuedJobs = SetDelete(@, id),
                            !.phasePendingJobs = @ \ {id}])

\* jobDone listener without phasePendingJobs.delete(id).
jobDoneListener_KeepsPending(w, id) ==
    LET w1 == [w EXCEPT !.jobs = SetDelete(@, id),
                        !.queuedJobs = SetDelete(@, id)]
    IN  IF w1.phasePendingJobs = {} THEN startNewPhase(w1) ELSE startQueuedJob(w1)

\* jobDone listener without queuedJobs.delete(id).
jobDoneListener_KeepsQueued(w, id) ==
    LET w1 == [w EXCEPT !.jobs = SetDelete(@, id),
                        !.phasePendingJobs = @ \ {id}]
    IN  IF w1.phasePendingJobs = {} THEN startNewPhase(w1) ELSE startQueuedJob(w1)

\* jobDone listener that only forgets the job and never advances.
jobDoneListener_NoAdvance(w, id) ==
    [w EXCEPT !.jobs = SetDelete(@, id),
              !.queuedJobs = SetDelete(@, id),
              !.phasePendingJobs = @ \ {id}]

\* jobDone listener without jobs.delete(id).
jobDoneListener_KeepsJob(w, id) ==
    LET w1 == [w EXCEPT !.queuedJobs = SetDelete(@, id),
                        !.phasePendingJobs = @ \ {id}]
    IN  IF w1.phasePendingJobs = {} THEN startNewPhase(w1) ELSE startQueuedJob(w1)

\* ctrlEmitter.on('jobDone', ...)
jobDoneListener(w, id) ==
    LET w1 == [w EXCEPT !.jobs = SetDelete(@, id),
                        !.queuedJobs = SetDelete(@, id),
                        !.phasePendingJobs = @ \ {id}]
    IN  IF w1.phasePendingJobs = {} THEN startNewPhase(w1) ELSE startQueuedJob(w1)

\* ctrlEmitter.emit('stepDone', id, stepnr), handler included.
emitStepDone(w, id, stepnr) ==
    stepDoneListener([w EXCEPT !.stepDoneEmitted[id] = @ \cup {stepnr},
                               !.released = @ \ {id}],
                     id, stepnr)

\* ctrlEmitter.emit('jobDone', id), handler included.
emitJobDone(w, id) ==
    jobDoneListener([w EXCEPT !.released = @ \ {id},
                              !.jobDoneCount[id] = @ + 1],
                    id)

\* phase() that counts the call before it announces the boundary.
phase_CountsFirst(w, id) ==
    LET armed == [w EXCEPT !.pc[id] = "waiting", !.phaseCntr[id] = @ + 1]
    IN  IF armed.phaseCntr[id] > 1
        THEN emitStepDone(armed, id, armed.phaseCntr[id])
        ELSE armed

\* phase() that announces a boundary on its first call too.
phase_AlwaysAnnounce(w, id) ==
    LET armed == [w EXCEPT !.pc[id] = "waiting"]
        told  == emitStepDone(armed, id, w.phaseCntr[id])
    IN  [told EXCEPT !.phaseCntr[id] = @ + 1]

\* phase() that announces the boundary first and registers its wait after.
phase_AnnounceFirst(w, id) ==
    LET told  == IF w.phaseCntr[id] > 0
                 THEN emitStepDone(w, id, w.phaseCntr[id])
                 ELSE w
    IN  [told EXCEPT !.pc[id] = "waiting", !.phaseCntr[id] = @ + 1]

\* PhaseSyncer.phase(): register the wait for 'ready', then announce the
\* boundary (not on the first call), then count it.  The job suspends on the
\* returned promise.
phase(w, id) ==
    LET armed == [w EXCEPT !.pc[id] = "waiting"]
        told  == IF w.phaseCntr[id] > 0
                 THEN emitStepDone(armed, id, w.phaseCntr[id])
                 ELSE armed
    IN  [told EXCEPT !.phaseCntr[id] = @ + 1]

\* Writes a world back to the variables.
Commit(w) ==
    /\ jobs' = w.jobs
    /\ queuedJobs' = w.queuedJobs
    /\ phasePendingJobs' = w.phasePendingJobs
    /\ pc' = w.pc
    /\ phaseCntr' = w.phaseCntr
    /\ readyCount' = w.readyCount
    /\ stepDoneEmitted' = w.stepDoneEmitted
    /\ released' = w.released
    /\ phaseLog' = w.phaseLog
    /\ jobDoneCount' = w.jobDoneCount
    /\ readyFaults' = w.readyFaults

\* ------------------------------------------------------------ the run
NoOutcome == [status |-> "pending", value |-> 0]

Init ==
    /\ jobList \in UNION {JobLists(n) : n \in 0..MaxJobs}
    /\ options \in OptionValues
    /\ concurrency = destructureConcurrency(options)
    /\ mainPc = "constructing"
    /\ jobMap = <<>>
    /\ jobs = <<>>
    /\ queuedJobs = <<>>
    /\ phasePendingJobs = {}
    /\ pc = [id \in Ids |-> "unconstructed"]
    /\ phaseCntr = [id \in Ids |-> 0]
    /\ outcome = [id \in Ids |-> NoOutcome]
    /\ aggregate = [resolved |-> FALSE, value |-> <<>>]
    /\ started = [id \in Ids |-> FALSE]
    /\ readyCount = [id \in Ids |-> 0]
    /\ resumes = [id \in Ids |-> 0]
    /\ stepDoneEmitted = [id \in Ids |-> {}]
    /\ released = {}
    /\ phaseLog = <<>>
    /\ invocations = [i \in 1..N |-> <<>>]
    /\ jobDoneCount = [id \in Ids |-> 0]
    /\ readyFaults = {}

\* args.push(this): the handle ends up behind the caller's arguments.
unshift_Push(args, handle) == Append(args, handle)

\* args.unshift(this): the handle goes in front, in the caller's own array.
unshift(args, handle) == <<handle>> \o args

\* new PhaseSyncer(fun, args, ctrlEmitter, debug) for the next descriptor:
\* args.unshift(this), then fun(...args) runs synchronously up to its first
\* await.  A function that throws there throws out of the constructor, out of
\* jobList.map and out of module.exports: no listener is registered, no
\* startNewPhase runs and no promise is returned.
Construct ==
    /\ mainPc = "constructing"
    /\ Len(jobMap) < N
    /\ LET i    == Len(jobMap) + 1
           id   == uuidv1(i)
           args == unshift(jobList[i].args, id)
       IN  /\ jobList' = [jobList EXCEPT ![i].args = args]
           /\ invocations' = [invocations EXCEPT ![i] = Append(@, args)]
           /\ CASE jobList[i].kind = "throwsSync" ->
                    /\ mainPc' = "threw"
                    /\ Commit(World)
                    /\ UNCHANGED <<jobMap, started>>
                [] jobList[i].kind = "phaseFirst" ->
                    /\ Commit(phase(World, id))
                    /\ jobMap' = Append(jobMap, id)
                    /\ UNCHANGED <<mainPc, started>>
                [] OTHER ->
                    /\ Commit([World EXCEPT !.pc[id] = "working"])
                    /\ jobMap' = Append(jobMap, id)
                    /\ started' = [started EXCEPT ![id] = TRUE]
                    /\ UNCHANGED mainPc
    /\ UNCHANGED <<options, concurrency, outcome, aggregate, resumes>>

\* The rest of module.exports: jobs = new Set(jobMap.keys()), the initial
\* startNewPhase(), return pSettle(...).
StartRun ==
    /\ mainPc = "constructing"
    /\ Len(jobMap) = N
    /\ Commit(startNewPhase([World EXCEPT !.jobs = jobMap]))
    /\ mainPc' = "returned"
    /\ UNCHANGED <<jobList, options, concurrency, jobMap, outcome, aggregate, started,
                   resumes, invocations>>

\* The continuation of `await phaseSyncer.phase()` runs.
Resume(id) ==
    /\ mainPc = "returned"
    /\ pc[id] = "readied"
    /\ pc' = [pc EXCEPT ![id] = "working"]
    /\ resumes' = [resumes EXCEPT ![id] = @ + 1]
    /\ started' = [started EXCEPT ![id] = TRUE]
    /\ UNCHANGED <<jobList, options, concurrency, mainPc, jobMap, jobs, queuedJobs,
                   phasePendingJobs, phaseCntr, outcome, aggregate, readyCount,
                   stepDoneEmitted, released, phaseLog, invocations, jobDoneCount,
                   readyFaults>>

\* The job function reaches its next `await phaseSyncer.phase()`.
CallPhase(id) ==
    /\ mainPc = "returned"
    /\ pc[id] = "working"
    /\ Descriptor(id).kind # "noPhase"
    /\ phaseCntr[id] < MaxPhaseCalls
    /\ Commit(phase(World, id))
    /\ UNCHANGED <<jobList, options, concurrency, mainPc, jobMap, outcome, aggregate,
                   started, resumes, invocations>>

\* A job function whose failure takes its job out of the pending set at once.
Finish_RejectFreesAtOnce(id) ==
    /\ mainPc = "returned"
    /\ pc[id] = "working"
    /\ Descriptor(id).kind = "workFirst" => phaseCntr[id] > 0
    /\ pc' = [pc EXCEPT ![id] = "settled"]
    /\ \E st \in {"fulfilled", "rejected"} :
          /\ outcome' = [outcome EXCEPT ![id] = [status |-> st, value |-> IndexOf(id)]]
          /\ phasePendingJobs' = IF st = "rejected" THEN phasePendingJobs \ {id}
                                 ELSE phasePendingJobs
    /\ UNCHANGED <<jobList, options, concurrency, mainPc, jobMap, jobs, queuedJobs,
                   phaseCntr, aggregate, started, readyCount,
                   resumes, stepDoneEmitted, released, phaseLog, invocations,
                   jobDoneCount, readyFaults>>

\* The job function returns or throws: its promise settles, with a value or
\* reason of the job's own (here: the job's input position).
Finish(id) ==
    /\ mainPc = "returned"
    /\ pc[id] = "working"
    /\ Descriptor(id).kind = "workFirst" => phaseCntr[id] > 0
    /\ pc' = [pc EXCEPT ![id] = "settled"]
    /\ \E st \in {"fulfilled", "rejected"} :
          outcome' = [outcome EXCEPT ![id] = [status |-> st, value |-> IndexOf(id)]]
    /\ UNCHANGED <<jobList, options, concurrency, mainPc, jobMap, jobs, queuedJobs,
                   phasePendingJobs, phaseCntr, aggregate, started, readyCount,
                   resumes, stepDoneEmitted, released, phaseLog, invocations,
                   jobDoneCount, readyFaults>>

\* The callback attached with then(cb) only: a rejected job never says 'jobDone'.
JobDone_OnFulfilOnly(id) ==
    /\ mainPc = "returned"
    /\ pc[id] = "settled"
    /\ IF outcome[id].status = "fulfilled"
       THEN Commit(emitJobDone([World EXCEPT !.pc[id] = "done"], id))
       ELSE Commit([World EXCEPT !.pc[id] = "done"])
    /\ UNCHANGED <<jobList, options, concurrency, mainPc, jobMap, phaseCntr, outcome,
                   aggregate, started, resumes, invocations>>

\* pFinally's onFinally callback: ctrlEmitter.emit('jobDone', this.id).
JobDone(id) ==
    /\ mainPc = "returned"
    /\ pc[id] = "settled"
    /\ Commit(emitJobDone([World EXCEPT !.pc[id] = "done"], id))
    /\ UNCHANGED <<jobList, options, concurrency, mainPc, jobMap, phaseCntr, outcome,
                   aggregate, started, resumes, invocations>>

\* jobPromise taken to be the job function's own promise: the entry settles
\* as soon as the job does, whether or not 'jobDone' has been emitted.
SettleEntry_PassThrough(id) ==
    /\ mainPc = "returned"
    /\ pc[id] \in {"settled", "done"}
    /\ pc' = [pc EXCEPT ![id] = "finished"]
    /\ UNCHANGED <<jobList, options, concurrency, mainPc, jobMap, jobs, queuedJobs,
                   phasePendingJobs, phaseCntr, outcome, aggregate, started,
                   readyCount, resumes, stepDoneEmitted, released, phaseLog, invocations,
                   jobDoneCount, readyFaults>>

\* jobPromise (the promise pFinally returns) settles as the job did.
SettleEntry(id) ==
    /\ mainPc = "returned"
    /\ pc[id] = "done"
    /\ pc' = [pc EXCEPT ![id] = "finished"]
    /\ UNCHANGED <<jobList, options, concurrency, mainPc, jobMap, jobs, queuedJobs,
                   phasePendingJobs, phaseCntr, outcome, aggregate, started,
                   readyCount, resumes, stepDoneEmitted, released, phaseLog, invocations,
                   jobDoneCount, readyFaults>>

\* The inputs taken in the order of their ids instead of insertion order.
settledInputs_ById ==
    [i \in 1..Len(jobMap) |->
        CHOOSE id \in Range(jobMap) :
            Cardinality({o \in Range(jobMap) : o < id}) = i - 1]

\* The promises pSettle waits for: [...jobMap.values()].map(ps => ps.jobPromise).
settledInputs == [i \in 1..Len(jobMap) |-> jobMap[i]]

\* A race instead of a settle-all: resolves as soon as one input has settled.
ResolveAggregate_Race ==
    /\ mainPc = "returned"
    /\ ~aggregate.resolved
    /\ \E i \in 1..Len(settledInputs) : pc[settledInputs[i]] = "finished"
    /\ aggregate' = [resolved |-> TRUE,
                     value |-> [i \in 1..Len(settledInputs) |-> outcome[settledInputs[i]]]]
    /\ UNCHANGED <<jobList, options, concurrency, mainPc, jobMap, jobs, queuedJobs,
                   phasePendingJobs, pc, phaseCntr, outcome, started, readyCount,
                   resumes, stepDoneEmitted, released, phaseLog, invocations,
                   jobDoneCount, readyFaults>>

\* pSettle that resolves only after a jobDone event has been seen.
ResolveAggregate_AfterJobDone ==
    /\ mainPc = "returned"
    /\ ~aggregate.resolved
    /\ \E id \in Ids : jobDoneCount[id] > 0
    /\ \A i \in 1..Len(settledInputs) : pc[settledInputs[i]] = "finished"
    /\ aggregate' = [resolved |-> TRUE,
                     value |-> [i \in 1..Len(settledInputs) |-> outcome[settledInputs[i]]]]
    /\ UNCHANGED <<jobList, options, concurrency, mainPc, jobMap, jobs, queuedJobs,
                   phasePendingJobs, pc, phaseCntr, outcome, started, readyCount,
                   resumes, stepDoneEmitted, released, phaseLog, invocations,
                   jobDoneCount, readyFaults>>

\* pSettle resolves once each of its inputs has settled, with their outcomes
\* in the order of the inputs.
ResolveAggregate ==
    /\ mainPc = "returned"
    /\ ~aggregate.resolved
    /\ \A i \in 1..Len(settledInputs) : pc[settledInputs[i]] = "finished"
    /\ aggregate' = [resolved |-> TRUE,
                     value |-> [i \in 1..Len(settledInputs) |-> outcome[settledInputs[i]]]]
    /\ UNCHANGED <<jobList, options, concurrency, mainPc, jobMap, jobs, queuedJobs,
                   phasePendingJobs, pc, phaseCntr, outcome, started, readyCount,
                   resumes, stepDoneEmitted, released, phaseLog, invocations,
                   jobDoneCount, readyFaults>>

Next ==
    \/ Construct
    \/ StartRun
    \/ \E id \in Ids : Resume(id)
    \/ \E id \in Ids : CallPhase(id)
    \/ \E id \in Ids : Finish(id)
    \/ \E id \in Ids : JobDone(id)
    \/ \E id \in Ids : SettleEntry(id)
    \/ ResolveAggregate

Spec == Init /\ [][Next]_vars

\* Every continuation that can run does run: promise reactions are microtasks
\* of a live event loop, and a job's own work between two boundaries finishes.
\* No action can be taken twice from the same state and every run is finite,
\* so fairness of Next is fairness of each action.
Fairness == WF_vars(Next)

FairSpec == Spec /\ Fairness

\* ------------------------------------------------------------- claims
Terminated(id) == pc[id] \in {"done", "finished"}

AllPhaseFirst == \A i \in 1..N : jobList[i].kind = "phaseFirst"

NoWorkFirst == \A i \in 1..N : jobList[i].kind # "workFirst"

\* Every job function is an async function (it returns a promise, whatever it does).
AsyncJobs == \A i \in 1..N : jobList[i].kind # "throwsSync"

JobsOfKind(k) == {id \in Ids : Descriptor(id).kind = k}

\* The step number a job announces when it completes phase k (k = 0, 1, ...).
StepNrOf(k) == k + 1

\* The snapshot of `jobs` taken when phase k started (k = 0, 1, ...).
ActiveAt(k) == Range(phaseLog[k + 1].active)

\* The ids the k-th startNewPhase sent 'ready' to.
SignalledAt(k) == {id \in Ids : phaseLog[k + 1].signals[id] > 0}

\* C1. Barrier: a job that has resumed from phase() r times is doing the work
\* of phase r-1; whenever r-1 = k+1 >= 1, phase k has been started and every
\* job in the snapshot of phase k has emitted 'stepDone' for phase k or has
\* emitted 'jobDone'.
C1_Barrier ==
    \A id \in Ids :
        resumes[id] >= 2 =>
            LET k == resumes[id] - 2
            IN  /\ Len(phaseLog) >= k + 1
                /\ \A o \in ActiveAt(k) :
                      StepNrOf(k) \in stepDoneEmitted[o] \/ Terminated(o)

C1_Witness ==
    \E id \in Ids : \E o \in Ids \ {id} : \E t \in Ids \ {id, o} :
        /\ resumes[id] >= 2
        /\ {o, t} \subseteq ActiveAt(resumes[id] - 2)
        /\ StepNrOf(resumes[id] - 2) \in stepDoneEmitted[o]
        /\ Terminated(t)

\* C2. Instantaneous cap: when every job starts with an awaited phase() call,
\* at most `concurrency` jobs have been signalled 'ready' without having emitted
\* 'stepDone' or 'jobDone' since.
C2_InstantCap ==
    AllPhaseFirst => Cardinality(released) <= concurrency

C2_Witness ==
    /\ AllPhaseFirst
    /\ N > concurrency
    /\ Len(phaseLog) = 2
    /\ Len(queuedJobs) < N - concurrency
    /\ Cardinality(released) = concurrency

\* The run is over: every job's entry has settled and the aggregate resolved.
RunOver == aggregate.resolved /\ \A id \in Ids : pc[id] = "finished"

\* C3. Progress: when each job is an async function that either never calls
\* phase() or calls it first thing (and awaits every call), every job eventually terminates and the
\* aggregate eventually resolves, for 0..MaxJobs jobs and every concurrency.
C3_Progress ==
    (mainPc = "constructing" /\ AsyncJobs /\ NoWorkFirst) ~> RunOver

C3_Witness ==
    /\ RunOver
    /\ N = MaxJobs
    /\ concurrency < N
    /\ JobsOfKind("noPhase") # {}
    /\ \E id \in JobsOfKind("phaseFirst") : resumes[id] >= 2

\* C4. Cap at phase start: every execution of startNewPhase sends 'ready' to
\* exactly min(concurrency, |jobs|) jobs, once each.
C4_CapAtPhaseStart ==
    \A k \in 0..(Len(phaseLog) - 1) :
        /\ Cardinality(SignalledAt(k)) = Min(concurrency, Cardinality(ActiveAt(k)))
        /\ \A id \in Ids : phaseLog[k + 1].signals[id] <= 1
        /\ SignalledAt(k) \subseteq ActiveAt(k)

C4_Witness ==
    /\ Len(phaseLog) >= 2
    /\ Cardinality(ActiveAt(0)) > concurrency
    /\ Cardinality(ActiveAt(1)) < concurrency
    /\ Cardinality(SignalledAt(1)) > 0

\* C5. Order preservation: entry i of the aggregate is the settled outcome of
\* the i-th job descriptor (whose value is its input position), whatever the
\* order in which the jobs terminated.
C5_OrderPreserved ==
    aggregate.resolved =>
        /\ Len(aggregate.value) = N
        /\ \A i \in 1..N :
              /\ aggregate.value[i].value = i
              /\ aggregate.value[i] = outcome[uuidv1(i)]

\* The last job of the input terminated first and the first one last.
C5_Witness ==
    /\ aggregate.resolved
    /\ N >= 2
    /\ aggregate.value[1].status # aggregate.value[N].status
    /\ phaseLog[Len(phaseLog) - 1].active = <<uuidv1(1)>>

\* Some job has rejected, in a run without jobs that call phase() late.
SomeJobRejected ==
    NoWorkFirst /\ \E id \in Ids : outcome[id].status = "rejected"

\* The run is over and every entry is the outcome of its own job: 'rejected'
\* with the job's reason if that job rejected, 'fulfilled' with its value if not.
IsolatedOutcomes ==
    /\ RunOver
    /\ \A j \in 1..N :
          /\ aggregate.value[j] = outcome[uuidv1(j)]
          /\ aggregate.value[j].status \in {"fulfilled", "rejected"}
          /\ aggregate.value[j].value = j

\* However a job function settled, nothing changes that outcome afterwards.
OutcomeKept ==
    \A id \in Ids : outcome[id] # NoOutcome => outcome'[id] = outcome[id]

\* C6. Failure isolation: once a job has rejected (and no job is of the kind
\* that calls phase() late), the run still ends with every job terminated; no
\* outcome changes once settled, so the failing job's entry is 'rejected' with
\* its own reason and every other entry is that job's own outcome.
C6_FailureIsolation ==
    /\ [][OutcomeKept]_vars
    /\ SomeJobRejected ~> IsolatedOutcomes

\* A job rejected in its first phase; another crossed two more boundaries
\* after that and fulfilled.
C6_Witness ==
    /\ RunOver
    /\ NoWorkFirst
    /\ \E id \in Ids : \E o \in Ids \ {id} :
          /\ outcome[id].status = "rejected"
          /\ phaseCntr[id] = 1
          /\ outcome[o].status = "fulfilled"
          /\ phaseCntr[o] = MaxPhaseCalls
          /\ resumes[o] = MaxPhaseCalls

\* C7. No partial result: the aggregate is resolved only when every job has
\* emitted 'jobDone' and `jobs` is empty.
C7_NoPartialResult ==
    aggregate.resolved => (jobs = <<>> /\ \A id \in Ids : Terminated(id))

C7_Witness ==
    /\ aggregate.resolved
    /\ N = MaxJobs
    /\ jobs = <<>>

\* C8. Jobs are started by the coordinator: a job has run work of its own only
\* if it has been signalled 'ready'.
C8_StartedOnlyWhenReady ==
    \A id \in Ids : started[id] => readyCount[id] > 0

\* C9. Single-phase jobs: a job that never calls phase() emits no 'stepDone',
\* is in the snapshot of no phase but the first, and once it has emitted
\* 'jobDone' is in none of the working sets, so that later phases start
\* without it.
C9_SinglePhaseJobs ==
    \A id \in JobsOfKind("noPhase") :
        /\ stepDoneEmitted[id] = {}
        /\ \A k \in 1..(Len(phaseLog) - 1) : id \notin ActiveAt(k)
        /\ Terminated(id) =>
              /\ id \notin phasePendingJobs
              /\ id \notin Range(jobs)
              /\ id \notin Range(queuedJobs)

C9_Witness ==
    \E id \in JobsOfKind("noPhase") : \E o \in JobsOfKind("phaseFirst") :
        /\ Terminated(id)
        /\ Len(phaseLog) >= 2
        /\ id \in ActiveAt(0)
        /\ o \in ActiveAt(1)
        /\ resumes[o] = 2

\* C10. Full concurrency: with concurrency >= n the initial startNewPhase
\* signals all n jobs and queuedJobs is empty in every state.
C10_FullConcurrency ==
    concurrency >= N =>
        /\ queuedJobs = <<>>
        /\ Len(phaseLog) >= 1 =>
              /\ SignalledAt(0) = Ids
              /\ phaseLog[1].active = jobMap

C10_Witness ==
    /\ concurrency >= N
    /\ N = MaxJobs
    /\ Len(phaseLog) >= 2
    /\ queuedJobs = <<>>

\* The jobs at input positions 1 and 2.
FirstJob == uuidv1(1)

SecondJob == uuidv1(2)

\* A job that has crossed no boundary after its start: it never calls phase(),
\* or has called it only as its first action.
SinglePhaseSoFar(id) ==
    /\ Descriptor(id).kind \in {"noPhase", "phaseFirst"}
    /\ phaseCntr[id] <= 1

\* C11. Sequential execution at concurrency 1: with concurrency = 1 and two
\* single-phase jobs, the second job has done no work and its entry has not
\* settled unless the first job has emitted 'jobDone'.
C11_Sequential ==
    (concurrency = 1 /\ N = 2 /\ \A id \in Ids : SinglePhaseSoFar(id)) =>
        /\ started[SecondJob] => jobDoneCount[FirstJob] = 1
        /\ pc[SecondJob] = "finished" => jobDoneCount[FirstJob] = 1

ThirdJob == uuidv1(3)

\* Jobs A, B, C that each start with phase() and call it exactly twice (two
\* phases each), run with concurrency 2: the run so far is such a run.
WorkedTraceRun ==
    /\ N = 3
    /\ concurrency = 2
    /\ AllPhaseFirst
    /\ \A id \in Ids :
          /\ phaseCntr[id] <= 2
          /\ pc[id] \in {"settled", "done", "finished"} => phaseCntr[id] = 2

\* C12. Worked trace for A, B, C, two phases each, concurrency 2: the first
\* startNewPhase releases A and B and queues C; once A alone has reported
\* phase-done, pending is {B, C} and C has been released from the queue;
\* phase 1 has started only if B and C (and A) have reported phase-done, and
\* it releases exactly A and B again, with C queued.
C12_WorkedTrace ==
    WorkedTraceRun =>
        /\ Len(phaseLog) >= 1 =>
              /\ phaseLog[1].active = <<FirstJob, SecondJob, ThirdJob>>
              /\ SignalledAt(0) = {FirstJob, SecondJob}
              /\ phaseLog[1].queued = <<ThirdJob>>
        /\ (/\ Len(phaseLog) = 1
            /\ stepDoneEmitted[FirstJob] = {1}
            /\ stepDoneEmitted[SecondJob] = {}
            /\ stepDoneEmitted[ThirdJob] = {}) =>
              /\ phasePendingJobs = {SecondJob, ThirdJob}
              /\ queuedJobs = <<>>
              /\ readyCount[ThirdJob] = 1
        /\ Len(phaseLog) >= 2 =>
              /\ \A id \in Ids : 1 \in stepDoneEmitted[id]
              /\ phaseLog[2].active = <<FirstJob, SecondJob, ThirdJob>>
              /\ SignalledAt(1) = {FirstJob, SecondJob}
              /\ phaseLog[2].queued = <<ThirdJob>>

\* Phase 1 has started after A reported first: A and B are released a second
\* time, C once.
C12_Witness ==
    /\ WorkedTraceRun
    /\ Len(phaseLog) = 2
    /\ readyCount = (FirstJob :> 2) @@ (SecondJob :> 2) @@ (ThirdJob :> 1)
    /\ queuedJobs = <<ThirdJob>>
    /\ phasePendingJobs = Ids

\* C13. Empty input: no job is signalled, every working set is empty, only
\* the initial startNewPhase runs, and once the call has returned the
\* aggregate is resolved to the empty sequence or can resolve at once,
\* no event being awaited.
C13_EmptyInput ==
    N = 0 =>
        /\ jobs = <<>> /\ queuedJobs = <<>> /\ phasePendingJobs = {}
        /\ released = {} /\ readyFaults = {}
        /\ Len(phaseLog) <= 1
        /\ \A k \in 1..Len(phaseLog) :
              /\ phaseLog[k].active = <<>>
              /\ phaseLog[k].queued = <<>>
              /\ DOMAIN phaseLog[k].signals = {}
        /\ aggregate.resolved => aggregate.value = <<>>
        /\ (mainPc = "returned" /\ ~aggregate.resolved) => ENABLED ResolveAggregate

\* The call on an empty list has returned and its aggregate has resolved.
C13_Witness ==
    /\ N = 0
    /\ mainPc = "returned"
    /\ Len(phaseLog) = 1
    /\ aggregate = [resolved |-> TRUE, value |-> <<>>]

\* C14. The coordinator never fails: whatever the job list, a job whose
\* function fails at its first step included, the call does not throw, and a
\* resolved aggregate holds one "fulfilled" or "rejected" entry per job, a
\* job's failure being that job's "rejected" entry.
C14_CoordinatorNeverFails ==
    /\ mainPc # "threw"
    /\ aggregate.resolved =>
          /\ Len(aggregate.value) = N
          /\ \A i \in 1..N :
                /\ aggregate.value[i].status \in {"fulfilled", "rejected"}
                /\ aggregate.value[i] = outcome[uuidv1(i)]

\* C15. Exactly-once termination notice: 'jobDone' has been emitted for a job
\* once if its onFinally callback has run and never otherwise, whatever its
\* outcome and its number of phase() calls; a job whose entry in the aggregate
\* has settled has emitted it, so the emission comes first.
C15_JobDoneOnce ==
    \A id \in Ids :
        /\ jobDoneCount[id] = IF pc[id] \in {"done", "finished"} THEN 1 ELSE 0
        /\ pc[id] = "finished" =>
              /\ outcome[id].status \in {"fulfilled", "rejected"}
              /\ jobDoneCount[id] = 1
        /\ aggregate.resolved => jobDoneCount[id] = 1

\* A rejected job that crossed two boundaries and a fulfilled job that called
\* phase() less often have both settled their entries.
C15_Witness ==
    \E a, b \in Ids :
        /\ pc[a] = "finished" /\ pc[b] = "finished"
        /\ outcome[a].status = "rejected" /\ phaseCntr[a] >= 2
        /\ outcome[b].status = "fulfilled" /\ phaseCntr[b] < phaseCntr[a]
        /\ jobDoneCount[a] = 1 /\ jobDoneCount[b] = 1

\* C16. Each job function is invoked at most once, exactly once when the call
\* has returned, with its own handle first and then the caller's arguments in
\* their original order; the handles of different jobs differ.
C16_InvokedOnceWithHandle ==
    /\ \A i \in 1..N :
          /\ Len(invocations[i]) <= 1
          /\ (i <= Len(jobMap) \/ mainPc = "returned") => Len(invocations[i]) = 1
          /\ Len(invocations[i]) = 1 =>
                /\ Len(invocations[i][1]) = Len(CallerArgs(i)) + 1
                /\ Head(invocations[i][1]) = uuidv1(i)
                /\ Tail(invocations[i][1]) = CallerArgs(i)
    /\ \A i, j \in 1..N :
          (i # j /\ Len(invocations[i]) = 1 /\ Len(invocations[j]) = 1) =>
              Head(invocations[i][1]) # Head(invocations[j][1])

\* A run of MaxJobs jobs is over: the last job got its handle and two caller
\* arguments.
C16_Witness ==
    /\ N = MaxJobs
    /\ RunOver
    /\ invocations[N] = << <<uuidv1(N)>> \o CallerArgs(N) >>
    /\ Len(CallerArgs(N)) >= 2

\* The caller passed no `concurrency`.
DefaultRun == ~options.hasConcurrency

\* The options object that names concurrency 1.
ExplicitOne == [hasConcurrency |-> TRUE, concurrency |-> 1]

\* What the coordinator has done at the phase starts so far is what it does
\* with one slot: the first active job signalled, the others queued.
OneSlotPhases ==
    \A k \in 1..Len(phaseLog) :
        /\ phaseLog[k].queued =
              IF phaseLog[k].active = <<>> THEN <<>> ELSE Tail(phaseLog[k].active)
        /\ {id \in DOMAIN phaseLog[k].signals : phaseLog[k].signals[id] > 0}
              = IF phaseLog[k].active = <<>> THEN {} ELSE {Head(phaseLog[k].active)}

\* C17. Default configuration: a run without `concurrency` runs with the
\* value a run with concurrency = 1 has (the only thing the coordinator reads
\* of its options), and both release one job per phase start and queue the rest.
C17_DefaultConcurrency ==
    /\ DefaultRun => concurrency = destructureConcurrency(ExplicitOne)
    /\ (DefaultRun \/ options = ExplicitOne) => (concurrency = 1 /\ OneSlotPhases)

\* A default run of MaxJobs jobs that crossed a boundary is over.
C17_Witness ==
    /\ DefaultRun
    /\ N = MaxJobs
    /\ Len(phaseLog) >= 2
    /\ RunOver

\* The jobs that emit 'stepDone' or 'jobDone' in the step.
EmittersOfStep ==
    {id \in Ids : \/ jobDoneCount'[id] # jobDoneCount[id]
                  \/ stepDoneEmitted'[id] # stepDoneEmitted[id]}

\* The step releases a job from the queue: a 'ready' is emitted and no phase
\* starts.
BackfillStep ==
    /\ Len(phaseLog') = Len(phaseLog)
    /\ \E id \in Ids : readyCount'[id] > readyCount[id]

\* C18. One slot freed, one job admitted: a step in which startQueuedJob
\* releases a job is a step in which a job that had been released, and was
\* not waiting in queuedJobs, emits 'stepDone' or 'jobDone'.
C18_OneFreedOneAdmitted ==
    [][BackfillStep =>
          \E id \in EmittersOfStep :
              /\ id \in released
              /\ id \notin Range(queuedJobs)]_vars

\* Some job suspends on work of its own before its first phase() call.
SomeWorkFirst == \E i \in 1..N : jobList[i].kind = "workFirst"

\* C19. A job that suspends on its own work before its first phase() call is
\* still released and the run terminates: once the call has returned, a run
\* with such a job is over or can take a further step; it is never stuck with
\* a job waiting for a 'ready' that does not come.
C19_LateFirstPhase ==
    (mainPc = "returned" /\ SomeWorkFirst) => (RunOver \/ ENABLED Next)

\* C20. No double release: no 'ready' is emitted to a job that has received
\* one and has emitted neither 'stepDone' nor 'jobDone' since, and none to a
\* job after its 'jobDone'; a job released r times has reported r - 1
\* boundaries at least.
C20_NoDoubleRelease ==
    /\ readyFaults = {}
    /\ \A id \in Ids :
          /\ readyCount[id] <= Cardinality(stepDoneEmitted[id]) + 1
          /\ jobDoneCount[id] = 1 => id \notin released

\* A job has been released a second time after another job terminated.
C20_Witness ==
    \E a, b \in Ids :
        /\ a # b
        /\ readyCount[a] >= 2
        /\ Cardinality(stepDoneEmitted[a]) >= 1
        /\ jobDoneCount[b] = 1
        /\ readyCount[b] >= 1
        /\ Len(phaseLog) >= 2

\* The job's 'stepDone' of this step made the coordinator start a phase whose
\* first cohort holds the job itself.
OwnStepDoneStartsPhase(id) ==
    /\ stepDoneEmitted'[id] # stepDoneEmitted[id]
    /\ Len(phaseLog') = Len(phaseLog) + 1
    /\ phaseLog'[Len(phaseLog')].signals[id] > 0

\* C21. Armed before announcing: a job whose own 'stepDone' starts the phase
\* that signals it has received that 'ready' when phase() returns its promise,
\* and no job that has reported a boundary is left waiting while it holds a
\* release.
C21_ArmedBeforeAnnouncing ==
    /\ [][\A id \in Ids : OwnStepDoneStartsPhase(id) => pc'[id] = "readied"]_vars
    /\ [](\A id \in Ids :
            (pc[id] = "waiting" /\ stepDoneEmitted[id] # {}) => id \notin released)

\* The only job of a run reported its first boundary, which started phase 1
\* and signalled the job itself.
C21_Witness ==
    /\ N = 1
    /\ Len(phaseLog) = 2
    /\ stepDoneEmitted[FirstJob] = {1}
    /\ pc[FirstJob] = "readied"
    /\ readyCount[FirstJob] = 2

\* The ids of seq stand in the order of their input positions.
InInputOrder(seq) ==
    \A i, j \in 1..Len(seq) : i < j => IndexOf(seq[i]) < IndexOf(seq[j])

\* The job a backfill step releases was the earliest input among the jobs
\* queued, the job that terminates in the step set aside.
BackfillTakesEarliest ==
    \A id \in Ids :
        readyCount'[id] > readyCount[id] =>
            /\ readyCount'[id] = readyCount[id] + 1
            /\ id \in Range(queuedJobs)
            /\ id \notin Range(queuedJobs')
            /\ \A q \in Range(queuedJobs') : IndexOf(id) < IndexOf(q)
            /\ \A o \in Ids \ {id} : readyCount'[o] = readyCount[o]

\* C22. Release order: every phase start signals the first `concurrency` jobs
\* of the active jobs taken in input order and queues the others in input
\* order; every backfill releases the earliest-input job of the queue,
\* whichever job's 'stepDone' or 'jobDone' triggered it.
C22_ReleaseOrder ==
    /\ [](/\ InInputOrder(jobs)
          /\ InInputOrder(queuedJobs)
          /\ \A k \in 1..Len(phaseLog) :
                LET active == phaseLog[k].active
                IN  /\ InInputOrder(active)
                    /\ SignalledAt(k - 1) =
                          {active[i] : i \in 1..Min(concurrency, Len(active))})
    /\ [][BackfillStep => BackfillTakesEarliest]_vars

\* With one slot and three jobs the second job has been released from the
\* queue and the third is still queued.
C22_Witness ==
    /\ N = 3
    /\ concurrency = 1
    /\ Len(phaseLog) = 1
    /\ readyCount = (FirstJob :> 1) @@ (SecondJob :> 1) @@ (ThirdJob :> 0)
    /\ queuedJobs = <<ThirdJob>>

\* C23. After the initial startNewPhase, phasePendingJobs and queuedJobs hold
\* only jobs of `jobs`, whatever the jobs do and in whatever order their
\* 'stepDone' and 'jobDone' arrive.
C23_SubsetsOfJobs ==
    mainPc = "returned" =>
        /\ phasePendingJobs \subseteq Range(jobs)
        /\ Range(queuedJobs) \subseteq Range(jobs)

\* A job has terminated, a later phase has started over the jobs left, and one
\* of them is queued.
C23_Witness ==
    /\ mainPc = "returned"
    /\ \E id \in Ids : jobDoneCount[id] = 1 /\ id \notin Range(jobs)
    /\ Len(phaseLog) >= 2
    /\ queuedJobs # <<>>
    /\ Range(queuedJobs) # Range(jobs)
    /\ phasePendingJobs # {}

\* The step changes `jobs` only by deleting the one job whose 'jobDone' is
\* handled in it.
JobsShrinkOnJobDone ==
    \/ jobs' = jobs /\ jobDoneCount' = jobDoneCount
    \/ \E id \in Range(jobs) :
          /\ jobDoneCount' = [jobDoneCount EXCEPT ![id] = @ + 1]
          /\ jobs' = SetDelete(jobs, id)
          /\ id \notin Range(jobs')

\* C24. `jobs` is the n job identities when the coordinator starts; from then
\* on a step leaves it alone unless it handles a 'jobDone', which deletes
\* that job and no other, so that `jobs` is at any time the jobs whose
\* 'jobDone' has not been handled; handling a 'stepDone' leaves it alone.
C24_JobsOnlyShrink ==
    /\ [][(mainPc = "constructing" /\ mainPc' = "returned") =>
              (Range(jobs') = Ids /\ Len(jobs') = N)]_vars
    /\ [][mainPc = "returned" => JobsShrinkOnJobDone]_vars
    /\ [][(stepDoneEmitted' # stepDoneEmitted) => jobs' = jobs]_vars
    /\ [](mainPc = "returned" =>
             (Range(jobs) = {id \in Ids : jobDoneCount[id] = 0} /\ Len(jobs) <= N))

\* One of three jobs has terminated and left `jobs`; another has reported a
\* boundary and is still in it.
C24_Witness ==
    /\ N = 3
    /\ Len(jobs) = 2
    /\ \E a \in Ids : jobDoneCount[a] = 1 /\ a \notin Range(jobs)
    /\ \E b \in Range(jobs) : stepDoneEmitted[b] # {}

\* The phase() calls a job has made so far: those it has resumed from, and the
\* one it is suspended in.
PhaseCallsMade(id) ==
    resumes[id] + (IF pc[id] \in {"waiting", "readied"} THEN 1 ELSE 0)

\* C25. A job that has called phase() m times has emitted max(0, m-1)
\* 'stepDone', one per call after the first with the step numbers 1..m-1;
\* phaseCntr is the number of calls made so far, grows by one in a step that
\* calls phase() and never decreases.
C25_StepDonePerBoundary ==
    /\ [](\A id \in Ids :
            /\ phaseCntr[id] = PhaseCallsMade(id)
            /\ stepDoneEmitted[id] = 1..(phaseCntr[id] - 1)
            /\ Cardinality(stepDoneEmitted[id]) =
                  IF phaseCntr[id] = 0 THEN 0 ELSE phaseCntr[id] - 1)
    /\ [][\A id \in Ids :
            /\ phaseCntr'[id] \in {phaseCntr[id], phaseCntr[id] + 1}
            /\ Cardinality(stepDoneEmitted'[id]) - Cardinality(stepDoneEmitted[id]) =
                  IF phaseCntr'[id] = phaseCntr[id] + 1 /\ phaseCntr[id] > 0
                  THEN 1 ELSE 0]_vars

\* One job has called phase() twice and reported one boundary; another has
\* called it once and reported none.
C25_Witness ==
    \E a, b \in Ids :
        /\ phaseCntr[a] = 2 /\ stepDoneEmitted[a] = {1}
        /\ phaseCntr[b] = 1 /\ stepDoneEmitted[b] = {} /\ resumes[b] = 1

\* The step runs startNewPhase.
PhaseStartStep == Len(phaseLog') = Len(phaseLog) + 1

\* The active jobs behind the first `concurrency`, in input order.
BehindTheCap(active) ==
    [i \in 1..(IF Len(active) > concurrency THEN Len(active) - concurrency ELSE 0) |->
        active[concurrency + i]]

\* C26. Right after every startNewPhase, phasePendingJobs is the whole active
\* set, queuedJobs is the active jobs behind the first `concurrency` in input
\* order, and the jobs holding a release and the queued jobs are disjoint and
\* together make up the active set.
C26_AfterStartNewPhase ==
    [][PhaseStartStep =>
          /\ phasePendingJobs' = Range(jobs')
          /\ queuedJobs' = BehindTheCap(jobs')
          /\ released' \cap Range(queuedJobs') = {}
          /\ released' \cup Range(queuedJobs') = Range(jobs')
          /\ released' = {id \in Ids : readyCount'[id] > readyCount[id]}]_vars

\* A phase after the first has just started over the jobs left by a
\* termination, one released and one queued.
C26_Witness ==
    /\ Len(phaseLog) >= 2
    /\ Len(jobs) = 2 /\ N = 3
    /\ phasePendingJobs = Range(jobs)
    /\ released = {jobs[1]}
    /\ queuedJobs = <<jobs[2]>>
    /\ readyCount[jobs[1]] = 2

\* The job is in one of the coordinator's three sets.
Tracked(id) ==
    \/ id \in Range(jobs)
    \/ id \in Range(queuedJobs)
    \/ id \in phasePendingJobs

\* C27. A job whose 'jobDone' has been handled is in none of jobs, queuedJobs
\* and phasePendingJobs, in that state and in every later one; a phase started
\* by its 'jobDone' or after it lists the job neither as active nor as queued.
C27_TerminatedJobForgotten ==
    /\ [](\A id \in Ids : jobDoneCount[id] >= 1 => ~Tracked(id))
    /\ [][PhaseStartStep =>
             \A id \in Ids :
                 jobDoneCount'[id] >= 1 =>
                     /\ id \notin Range(phaseLog'[Len(phaseLog')].active)
                     /\ id \notin Range(phaseLog'[Len(phaseLog')].queued)
                     /\ phaseLog'[Len(phaseLog')].signals[id] = 0]_vars

\* A job of the first phase has terminated, and the next phase has started
\* without it over the two jobs left, one of them queued.
C27_Witness ==
    \E id \in Ids :
        /\ jobDoneCount[id] = 1
        /\ Len(phaseLog) = 2
        /\ id \in Range(phaseLog[1].active)
        /\ Len(phaseLog[2].active) = 2
        /\ id \notin Range(phaseLog[2].active)
        /\ queuedJobs # <<>>

\* Job h holds a release of the current phase, has not reported it, and
\* neither reports nor terminates in the step.
HungThrough(h) ==
    /\ h \in released
    /\ h \in phasePendingJobs
    /\ h \notin EmittersOfStep

\* C28. Hung job: while a released job neither reports the current phase nor
\* terminates, no step runs startNewPhase, no job is resumed into a further
\* phase, and the aggregate stays unresolved; a step in which another released
\* job reports or terminates while a job is queued still admits a queued job.
C28_HungJobStalls ==
    [][\A h \in Ids :
          HungThrough(h) =>
              /\ ~PhaseStartStep
              /\ h \in phasePendingJobs'
              /\ ~aggregate'.resolved
              /\ \A o \in Ids : resumes'[o] <= Len(phaseLog)
              /\ (/\ EmittersOfStep \cap released # {}
                  /\ Range(queuedJobs) \ EmittersOfStep # {}) => BackfillStep]_vars

\* The first of three jobs missed its release and hangs in its first phase()
\* call; the second has reported its boundary, which admitted the third.
C28_Witness ==
    /\ N = 3
    /\ concurrency = 2
    /\ Len(phaseLog) = 1
    /\ pc[FirstJob] = "waiting" /\ FirstJob \in released /\ phaseCntr[FirstJob] = 1
    /\ stepDoneEmitted[SecondJob] = {1}
    /\ readyCount[ThirdJob] = 1
    /\ queuedJobs = <<>>
    /\ phasePendingJobs = {FirstJob, ThirdJob}

\* What the coordinator holds and has signalled.
coordinatorState ==
    <<jobs, queuedJobs, phasePendingJobs, readyCount, released, phaseLog>>

\* The coordinator's step on the 'jobDone' of id, written from its own state
\* alone: the job leaves the three sets; if nobody is pending any more a phase
\* starts over the jobs left, otherwise the head of the queue, if any, is
\* released.
JobDoneEffect(id) ==
    LET left == SetDelete(jobs, id)
        q    == SetDelete(queuedJobs, id)
        pend == phasePendingJobs \ {id}
    IN  /\ jobs' = left
        /\ IF pend = {}
           THEN /\ PhaseStartStep
                /\ phaseLog'[Len(phaseLog')].active = left
                /\ phasePendingJobs' = Range(left)
                /\ queuedJobs' = BehindTheCap(left)
                /\ readyCount' = [o \in Ids |->
                      readyCount[o] + (IF o \in Range(left) \ Range(BehindTheCap(left))
                                       THEN 1 ELSE 0)]
           ELSE /\ phaseLog' = phaseLog
                /\ phasePendingJobs' = pend
                /\ IF q = <<>>
                   THEN queuedJobs' = <<>> /\ readyCount' = readyCount
                   ELSE /\ queuedJobs' = Tail(q)
                        /\ readyCount' = [readyCount EXCEPT ![Head(q)] = @ + 1]

NotificationsOfStep(id) ==
    (jobDoneCount'[id] - jobDoneCount[id])
        + (Cardinality(stepDoneEmitted'[id]) - Cardinality(stepDoneEmitted[id]))

\* C30. Event handling is atomic: a step handles at most one notification,
\* with the startNewPhase or startQueuedJob its handler runs; a job signalled
\* 'ready' in a step has not resumed when the step ends, and the sets are
\* then up to date (the job is out of queuedJobs and in phasePendingJobs); a
\* step that resumes a job handles no notification and leaves the
\* coordinator's state alone.
C30_AtomicHandlers ==
    [][/\ Cardinality(EmittersOfStep) <= 1
       /\ \A id \in EmittersOfStep : NotificationsOfStep(id) = 1
       /\ \A id \in Ids :
             readyCount'[id] > readyCount[id] =>
                 /\ resumes'[id] = resumes[id]
                 /\ pc'[id] = "working" => pc[id] = "working"
                 /\ pc[id] = "waiting" => pc'[id] = "readied"
                 /\ id \notin Range(queuedJobs')
                 /\ id \in phasePendingJobs'
       /\ \A id \in Ids :
             resumes'[id] > resumes[id] =>
                 /\ pc[id] = "readied" /\ pc'[id] = "working"
                 /\ EmittersOfStep = {}
                 /\ UNCHANGED coordinatorState]_vars

\* A queued job has been signalled 'ready' by the handler of another job's
\* 'stepDone' and has not resumed yet.
C30_Witness ==
    \E id, o \in Ids :
        /\ id # o
        /\ stepDoneEmitted[o] # {}
        /\ IndexOf(id) > concurrency
        /\ pc[id] = "readied"
        /\ readyCount[id] = 1
        /\ resumes[id] = 0
        /\ id \in phasePendingJobs
        /\ id \notin Range(queuedJobs)

\* C31. Between two executions of startNewPhase the working sets only lose
\* elements: a step that does not start a phase, whatever notification it
\* handles, leaves queuedJobs and phasePendingJobs equal to or a subset of what
\* they were, a handled notification taking its job out of phasePendingJobs.
C31_SetsOnlyShrink ==
    [][~PhaseStartStep =>
          /\ Range(queuedJobs') \subseteq Range(queuedJobs)
          /\ Len(queuedJobs') <= Len(queuedJobs)
          /\ phasePendingJobs' \subseteq phasePendingJobs
          /\ \A id \in EmittersOfStep : id \notin phasePendingJobs']_vars

\* In phase 0 one job has reported and another has terminated: both sets are
\* strict subsets of what startNewPhase made them.
C31_Witness ==
    /\ Len(phaseLog) = 1
    /\ \E a, b \in Ids : a # b /\ jobDoneCount[a] = 1 /\ stepDoneEmitted[b] = {1}
    /\ Len(queuedJobs) < Len(phaseLog[1].queued)
    /\ phasePendingJobs # {}
    /\ phasePendingJobs # Range(phaseLog[1].active)

\* C32. When every job starts with an awaited phase() call, the queued jobs
\* are pending jobs in every state, and a step of the running coordinator that
\* starts a phase finds the queue empty: the last report of a phase comes when
\* nobody waits in the queue any more.
C32_QueuedArePending ==
    /\ [](AllPhaseFirst => Range(queuedJobs) \subseteq phasePendingJobs)
    /\ [][(AllPhaseFirst /\ mainPc = "returned" /\ PhaseStartStep) =>
              queuedJobs = <<>>]_vars

\* Three phase-first jobs are in their second phase, one of them queued and
\* two pending jobs released.
C32_Witness ==
    /\ AllPhaseFirst
    /\ N = 3
    /\ Len(phaseLog) = 2
    /\ queuedJobs # <<>>
    /\ Range(queuedJobs) # phasePendingJobs
    /\ Range(queuedJobs) \subseteq phasePendingJobs

\* The number of started phases the job was active in.
ActivePhases(id) ==
    Cardinality({k \in 1..Len(phaseLog) : id \in Range(phaseLog[k].active)})

\* C33. Every active job is admitted in every phase (jobs that start with an
\* awaited phase() call): a 'ready' sent to a job during the k-th started
\* phase is the job's k-th and goes to a job active in that phase; when the
\* next phase starts every job active in the phase that ends has had its
\* 'ready' of that phase; and the run is never stuck with a job left
\* unadmitted: until it is over some step is possible.
C33_AdmittedInEveryPhase ==
    /\ [](AllPhaseFirst =>
            \A id \in Ids :
                /\ readyCount[id] <= ActivePhases(id)
                /\ readyCount[id] >= ActivePhases(id) - 1
                /\ RunOver => readyCount[id] = ActivePhases(id))
    /\ [][AllPhaseFirst =>
            \A id \in Ids :
                readyCount'[id] > readyCount[id] =>
                    /\ readyCount'[id] = Len(phaseLog')
                    /\ id \in Range(phaseLog'[Len(phaseLog')].active)]_vars
    /\ [][(AllPhaseFirst /\ mainPc = "returned" /\ PhaseStartStep) =>
            \A id \in Range(phaseLog[Len(phaseLog)].active) :
                readyCount[id] = Len(phaseLog)]_vars
    /\ []((AllPhaseFirst /\ mainPc = "returned") => (RunOver \/ ENABLED Next))

\* With one slot, three phase-first jobs have each been admitted in phase 0,
\* the last two from the queue, and phase 1 has started.
C33_Witness ==
    /\ AllPhaseFirst
    /\ N = 3
    /\ concurrency = 1
    /\ Len(phaseLog) = 2
    /\ Len(phaseLog[2].active) = 3
    /\ readyCount = (FirstJob :> 2) @@ (SecondJob :> 1) @@ (ThirdJob :> 1)

\* The job has been resumed from phase() and is doing the work of a phase.
Running(id) == pc[id] = "working" /\ id \in released

MaxOf(S) == IF S = {} THEN 0 ELSE CHOOSE m \in S : \A x \in S : x <= m

\* The executions of startNewPhase so far that found `jobs` non-empty.
NonEmptyPhases ==
    Cardinality({k \in 1..Len(phaseLog) : phaseLog[k].active # <<>>})

\* C35. Number of phases (jobs that start with an awaited phase() call, job i
\* making p_i calls in all): startNewPhase never has run with a non-empty
\* `jobs` more often than the greatest number of phase() calls made so far by
\* a job, and when the run is over it has run so exactly max p_i times, plus
\* once with the empty set at the end; for every concurrency.
C35_NumberOfPhases ==
    AllPhaseFirst =>
        /\ NonEmptyPhases <= MaxOf({phaseCntr[id] : id \in Ids})
        /\ RunOver =>
              /\ NonEmptyPhases = MaxOf({phaseCntr[id] : id \in Ids})
              /\ Len(phaseLog) = NonEmptyPhases + 1
              /\ \A id \in Ids : phaseCntr[id] >= 1 /\ ActivePhases(id) = phaseCntr[id]

\* A run of three jobs is over in which one job called phase() once and
\* another twice: two phases were started with jobs to run.
C35_Witness ==
    /\ AllPhaseFirst
    /\ N = 3
    /\ RunOver
    /\ \E a, b \in Ids : phaseCntr[a] = 1 /\ phaseCntr[b] = 2
    /\ NonEmptyPhases = 2
    /\ Len(phaseLog) = 3

\* C36. No lost release signal (jobs that start with an awaited phase()
\* call): every 'ready' the coordinator emits finds its job suspended in
\* phase() with the wait registered (the job was waiting before the step, or
\* it is the job whose own phase() call the step runs) and resolves that
\* wait; so the 'ready' sent to a job are its resumptions from phase() plus
\* the one it has received and not yet resumed from.
C36_NoLostReady ==
    /\ [](AllPhaseFirst =>
            \A id \in Ids :
                /\ readyCount[id] = resumes[id] + (IF pc[id] = "readied" THEN 1 ELSE 0)
                /\ RunOver => readyCount[id] = resumes[id])
    /\ [][AllPhaseFirst =>
            \A id \in Ids :
                readyCount'[id] > readyCount[id] =>
                    /\ pc'[id] = "readied"
                    /\ pc[id] = "waiting" \/ id \in EmittersOfStep]_vars

\* In phase 1 one job has received and used two 'ready'; another has just
\* received its second from the queue and has not resumed from it yet.
C36_Witness ==
    /\ AllPhaseFirst
    /\ concurrency = 1
    /\ \E a, b \in Ids :
          /\ readyCount[a] = 2 /\ resumes[a] = 2
          /\ readyCount[b] = 2 /\ resumes[b] = 1 /\ pc[b] = "readied"

\* C37. The caller's descriptors are left unchanged: the argument list of
\* every descriptor is at any time the list the caller supplied, so that a
\* second run on the same list, which prepends a handle to it again, would
\* pass the handle followed by the caller's original arguments.
C37_DescriptorsUnchanged ==
    \A i \in 1..N :
        /\ jobList[i].args = CallerArgs(i)
        /\ \A handle \in 1..MaxJobs :
              Tail(unshift(jobList[i].args, handle)) = CallerArgs(i)

====
